---- MODULE Spec2Model ----
(***************************************************************************)
(* The BFT bridge of cita-bft (src/core/bft_bridge.rs): the Processor     *)
(* loop, its per-height caches and pending-request queues, and the         *)
(* BftBridge adapter whose methods the BFT actuator calls from its own     *)
(* threads.  Channels are FIFO sequences; an Option<T> is <<>> (None) or   *)
(* <<x>> (Some(x)).                                                        *)
(*                                                                         *)
(* Bus payloads are well formed (the unwrap() of a failed decode is not    *)
(* modelled) and a status hash is a full-width H256, which from_slice      *)
(* copies byte for byte.  A bus message is handled in the loop iteration   *)
(* whose select! receives it, so its arrival and its handling are one      *)
(* step; bridge requests wait in b2p.  The actuator keeps the events it is *)
(* sent: bft_actuator holds the latest one.  The history variables record  *)
(* what was handled and take no part in any guard.                         *)
(***************************************************************************)
EXTENDS Integers, Sequences, FiniteSets, TLC

\* ------------------------------------------------------------ bounds
\* Number of bus messages the Processor receives in a run.
MaxBus == 2
\* Number of capability calls the actuator makes in a run.
MaxCalls == 2
\* Longest list of per-node entries in a status event whose authority list
\* is examined.
MaxNodes == 3

\* ------------------------------------------------------------ domains
Threads == {"t1", "t2"}
Heights == {1, 2}
Rounds == {0}
\* The chain-status events of a run: two conflicting ones for height 1, one
\* for height 2.
StatusEvents == {[height |-> 1, hash |-> "h1", version |-> 0],
                 [height |-> 1, hash |-> "h2", version |-> 1],
                 [height |-> 2, hash |-> "h1", version |-> 0]}
\* The transaction batches of a run: two different ones for height 1, one
\* for height 2.
BatchEvents == {[height |-> 1, body |-> "txsA"],
                [height |-> 1, body |-> "txsB"],
                [height |-> 2, body |-> "txsA"]}
Payloads == {"bytes"}
NodeLists == {<<"A", "A", "B">>}
\* Every list of per-node entries of up to MaxNodes addresses.
Addresses == {"A", "B", "C"}
NodeReports == UNION {[1..n -> Addresses] : n \in 0..MaxNodes}
Intervals == {3000}
SignHashes == {"m"}
Times == {1}

None == <<>>
Some(x) == <<x>>
unwrap(o) == o[1]

\* The node's address, derived from the private key at construction.
address == "self"

\* Engine-side commit certificates, one per height.
Proof(h) == [block_hash |-> "bh", height |-> h, round |-> 0,
             precommit_votes |-> {<<"A", "sigA">>}]
Commits == {[height |-> h, proof |-> Proof(h)] : h \in {1}}

\* Raw proposal bytes handed to check_transaction: an encoded Message
\* holding an origin and a compact block.
RawBlocks == {[origin |-> 7, compact_block |-> "cb"]}

\* BftMsg events the actuator hands to transmit.
BftMsgs == {[type |-> "Proposal", body |-> "proposal bytes"],
            [type |-> "Vote", body |-> "vote bytes"],
            [type |-> "Status", body |-> "status"]}

VARIABLES
    proof,            \* Processor.proof: height -> Option<Proof>
    pre_hash,         \* Processor.pre_hash: height -> Option<H256>
    version,          \* Processor.version: height -> Option<u32>
    get_block_reqs,   \* Processor.get_block_reqs: VecDeque<u64>
    check_tx_reqs,    \* Processor.check_tx_reqs: VecDeque<(u64, u64)>
    get_block_resps,  \* Processor.get_block_resps: height -> Option<BlockTxs>
    b2p,              \* channel BftBridge -> Processor (p4b)
    p2b_b,            \* channel Processor -> BftBridge, check_block responses
    p2b_f,            \* channel Processor -> BftBridge, get_block responses
    p2b_s,            \* channel Processor -> BftBridge, sign responses
    p2b_t,            \* channel Processor -> BftBridge, check_transaction responses
    p2r,              \* messages the Processor published on the bus
    disconnected,     \* the Processor's input channels (p4r, p4b) whose peer is gone and
                      \* on which a recv of the loop has failed
    bft_actuator,     \* the event the Processor last sent to the BFT actuator, or None
    call,             \* per actuator thread: the blocking call it is inside, or None
    get_height,       \* per actuator thread: the height argument of the get_block call
                      \* it is inside, or None
    overlap,          \* history, per actuator thread: "entered" while it is inside a
                      \* sign or check_block call made while another thread was inside
                      \* check_transaction, "returned" once that call returned, else "no"
    nBus,             \* bus messages received so far
    bus_ignored,      \* history: the latest bus message came under a routing key whose
                      \* branch of the dispatch is empty
    nCalls,           \* capability calls made so far
    reqLog,           \* history: the GetBlockReq handled, in order, each with whether
                      \* a status event for its height had been processed before it
    respLog,          \* history: the GetBlockResp sent, each with its request height and
                      \* the height of the batch whose arrival sent it
    first_status,     \* history: per height, (hash, version) of the first status event processed
    last_status,      \* history: per height, (hash, version) of the latest status event processed
    batchLog,         \* history: per height, the bodies of the batches processed, in order
    last_nodes,       \* history: the per-node entries of the latest status event processed
    last_commit,      \* history: per height, proof of the latest Commit handled
    nDropped          \* history: response-typed BridgeMsg taken from p4b and dropped

caches == <<proof, pre_hash, version, get_block_resps>>
queues == <<get_block_reqs, check_tx_reqs>>
resp_chans == <<p2b_b, p2b_f, p2b_s, p2b_t>>
threads == <<call, get_height, overlap, nCalls>>
bus == <<nBus, bus_ignored>>
history == <<reqLog, respLog, first_status, last_status, batchLog, last_nodes, last_commit,
             nDropped>>
vars == <<caches, queues, b2p, resp_chans, p2r, disconnected, bft_actuator, threads, bus,
          history>>

\* Processor::new, BftBridge::new: empty caches, queues and channels.
Init ==
    /\ proof = [h \in Heights |-> None]
    /\ pre_hash = [h \in Heights |-> None]
    /\ version = [h \in Heights |-> None]
    /\ get_block_resps = [h \in Heights |-> None]
    /\ get_block_reqs = <<>>
    /\ check_tx_reqs = <<>>
    /\ b2p = <<>>
    /\ p2b_b = <<>>
    /\ p2b_f = <<>>
    /\ p2b_s = <<>>
    /\ p2b_t = <<>>
    /\ p2r = <<>>
    /\ disconnected = {}
    /\ bft_actuator = None
    /\ call = [t \in Threads |-> None]
    /\ get_height = [t \in Threads |-> None]
    /\ overlap = [t \in Threads |-> "no"]
    /\ nBus = 0
    /\ bus_ignored = FALSE
    /\ nCalls = 0
    /\ reqLog = <<>>
    /\ respLog = <<>>
    /\ first_status = [h \in Heights |-> None]
    /\ last_status = [h \in Heights |-> None]
    /\ batchLog = [h \in Heights |-> <<>>]
    /\ last_nodes = <<>>
    /\ last_commit = [h \in Heights |-> None]
    /\ nDropped = 0

\* ------------------------------------------------------------ helpers
\* HashMap::entry(k).or_insert(v): writes only when k is absent.
insert(map, k, v) == [map EXCEPT ![k] = Some(v)]
or_insert(map, k, v) == IF map[k] = None THEN [map EXCEPT ![k] = Some(v)] ELSE map

\* VecDeque::push_back / front / pop_front.
push_front(q, x) == <<x>> \o q
push_back(q, x) == Append(q, x)
front(q) == Head(q)
keep_front(q) == q
pop_front(q) == Tail(q)

\* Sender::send on an unbounded channel.
send(chan, msg) == Append(chan, msg)

\* Proof codec: the engine's Proof as the header's ProtoProof.
to_bft_proof(p) ==
    [field_type |-> "Bft",
     content |-> [proposal |-> p.block_hash, height |-> p.height,
                  round |-> p.round, commits |-> p.precommit_votes]]

\* Processor::get_block: None unless version, pre_hash and proof are cached.
get_block_unchecked(height, block_txs, now) ==
    Some([version |-> version[height], body |-> block_txs.body,
          prevhash |-> pre_hash[height], proof |-> proof[height],
          timestamp |-> now, height |-> height,
          transactions_root |-> <<"root", block_txs.body>>,
          proposer |-> address])
get_block(height, block_txs, now) ==
    IF version[height] = None \/ pre_hash[height] = None \/ proof[height] = None
    THEN None
    ELSE Some([version |-> unwrap(version[height]),
               body |-> block_txs.body,
               prevhash |-> unwrap(pre_hash[height]),
               proof |-> to_bft_proof(unwrap(proof[height])),
               timestamp |-> now,
               height |-> height,
               transactions_root |-> <<"root", block_txs.body>>,
               proposer |-> address])

\* A variant that passes no block.
check_block_reject(block, height) == FALSE

\* Processor::check_block: the placeholder policy.
check_block(block, height) == TRUE

\* Processor::sign: Some(signature) when the signing library succeeds.
sign(hash, ok) == IF ok THEN Some([signer |-> address, hash |-> hash]) ELSE None

\* get_block_req_msg: the VerifyBlockReq built from a raw proposal.
get_block_req_msg(block, height, round) ==
    [height |-> height, round |-> round,
     block |-> block.compact_block, origin |-> block.origin]

\* Occurrences of a in the sequence s.
Count(a, s) == Cardinality({i \in 1..Len(s) : s[i] = a})

\* A variant that does not count the occurrences.
authority_list_uncounted(nodes) ==
    {[address |-> nodes[i], proposal_weight |-> 1, vote_weight |-> 1] : i \in 1..Len(nodes)}

\* The authority list extract_status derives from the per-node entries.
authority_list(nodes) ==
    {[address |-> nodes[i], proposal_weight |-> Count(nodes[i], nodes),
      vote_weight |-> 1] : i \in 1..Len(nodes)}

\* ------------------------------------------------------------ Processor, bus side
\* Auth >> VerifyBlockResp, Snapshot >> SnapshotReq and every other topic.
IgnoredTopics == {"Auth>>VerifyBlockResp", "Snapshot>>SnapshotReq", "Other"}

\* One loop iteration whose select! took a bus message.
BusRecv(key) ==
    /\ "p4r" \notin disconnected
    /\ nBus < MaxBus
    /\ nBus' = nBus + 1
    /\ bus_ignored' = (key \in IgnoredTopics)
    /\ disconnected' = disconnected

Net_CompactSignedProposal(body) ==
    /\ BusRecv("Net>>CompactSignedProposal")
    /\ bft_actuator' = Some([type |-> "Proposal", body |-> body])
    /\ UNCHANGED <<caches, queues, b2p, resp_chans, p2r, threads, history>>

Net_RawBytes(body) ==
    /\ BusRecv("Net>>RawBytes")
    /\ bft_actuator' = Some([type |-> "Vote", body |-> body])
    /\ UNCHANGED <<caches, queues, b2p, resp_chans, p2r, threads, history>>

\* Processor::extract_status, then the Status event to the actuator.
Chain_RichStatus(height, hash, ver, nodes, interval) ==
    /\ BusRecv("Chain>>RichStatus")
    /\ pre_hash' = or_insert(pre_hash, height, hash)
    /\ version' = or_insert(version, height, ver)
    /\ bft_actuator' = Some([type |-> "Status", height |-> height,
                              interval |-> Some(interval),
                              authority_list |-> authority_list(nodes)])
    /\ first_status' = IF first_status[height] = None
                       THEN [first_status EXCEPT ![height] = Some([hash |-> hash, version |-> ver])]
                       ELSE first_status
    /\ last_status' = [last_status EXCEPT ![height] = Some([hash |-> hash, version |-> ver])]
    /\ last_nodes' = nodes
    /\ UNCHANGED <<proof, get_block_resps, queues, b2p, resp_chans, p2r, threads,
                   reqLog, respLog, batchLog, last_commit, nDropped>>

\* get_block_resps.entry(block_txs.get_height()).or_insert(block_txs)
cache_batch_overwrite(map, block_txs) == insert(map, block_txs.height, block_txs)
cache_batch(map, block_txs) == or_insert(map, block_txs.height, block_txs)

\* A variant that answers the front request only when assembly succeeds.
Auth_BlockTxs_retry(height, body, now) ==
    /\ BusRecv("Auth>>BlockTxs")
    /\ get_block_resps' = cache_batch(get_block_resps, [height |-> height, body |-> body])
    /\ batchLog' = [batchLog EXCEPT ![height] = Append(@, body)]
    /\ IF /\ get_block_reqs # <<>>
          /\ get_block_resps'[front(get_block_reqs)] # None
          /\ get_block(front(get_block_reqs),
                       unwrap(get_block_resps'[front(get_block_reqs)]), now) # None
       THEN LET req_height == front(get_block_reqs)
                block_txs == unwrap(get_block_resps'[req_height])
                blk == get_block(req_height, block_txs, now)
            IN /\ p2b_f' = send(p2b_f, [type |-> "GetBlockResp", block |-> blk])
               /\ respLog' = Append(respLog, [height |-> req_height, block |-> blk,
                                               batch |-> height])
               /\ get_block_reqs' = pop_front(get_block_reqs)
       ELSE UNCHANGED <<p2b_f, respLog, get_block_reqs>>
    /\ UNCHANGED <<proof, pre_hash, version, check_tx_reqs, b2p, p2b_b, p2b_s, p2b_t,
                   p2r, bft_actuator, threads, reqLog, first_status, last_status, last_nodes,
                   last_commit, nDropped>>

\* A variant that answers the front request only on a batch of its height.
Auth_BlockTxs_matching(height, body, now) ==
    /\ BusRecv("Auth>>BlockTxs")
    /\ get_block_resps' = cache_batch(get_block_resps, [height |-> height, body |-> body])
    /\ batchLog' = [batchLog EXCEPT ![height] = Append(@, body)]
    /\ IF get_block_reqs # <<>> /\ front(get_block_reqs) = height
       THEN LET req_height == front(get_block_reqs)
                block_txs == unwrap(get_block_resps'[req_height])
                blk == get_block(req_height, block_txs, now)
            IN /\ p2b_f' = send(p2b_f, [type |-> "GetBlockResp", block |-> blk])
               /\ respLog' = Append(respLog, [height |-> req_height, block |-> blk,
                                               batch |-> height])
               /\ get_block_reqs' = pop_front(get_block_reqs)
       ELSE UNCHANGED <<p2b_f, respLog, get_block_reqs>>
    /\ UNCHANGED <<proof, pre_hash, version, check_tx_reqs, b2p, p2b_b, p2b_s, p2b_t,
                   p2r, bft_actuator, threads, reqLog, first_status, last_status, last_nodes,
                   last_commit, nDropped>>

\* The batch is cached; then the front request is answered, with whatever
\* get_block yields, when a batch for its height is cached.
Auth_BlockTxs(height, body, now) ==
    /\ BusRecv("Auth>>BlockTxs")
    /\ get_block_resps' = cache_batch(get_block_resps, [height |-> height, body |-> body])
    /\ batchLog' = [batchLog EXCEPT ![height] = Append(@, body)]
    /\ IF get_block_reqs # <<>> /\ get_block_resps'[front(get_block_reqs)] # None
       THEN LET req_height == front(get_block_reqs)
                block_txs == unwrap(get_block_resps'[req_height])
                blk == get_block(req_height, block_txs, now)
            IN /\ p2b_f' = send(p2b_f, [type |-> "GetBlockResp", block |-> blk])
               /\ respLog' = Append(respLog, [height |-> req_height, block |-> blk,
                                               batch |-> height])
               /\ get_block_reqs' = pop_front(get_block_reqs)
       ELSE UNCHANGED <<p2b_f, respLog, get_block_reqs>>
    /\ UNCHANGED <<proof, pre_hash, version, check_tx_reqs, b2p, p2b_b, p2b_s, p2b_t,
                   p2r, bft_actuator, threads, reqLog, first_status, last_status, last_nodes,
                   last_commit, nDropped>>

Bus_Ignored(topic) ==
    /\ BusRecv(topic)
    /\ UNCHANGED <<caches, queues, b2p, resp_chans, p2r, bft_actuator, threads, history>>


\* ------------------------------------------------------------ Processor, bridge side
\* A variant that takes no further request while a transaction check is
\* pending.
BridgeRecv_serial(type) ==
    /\ check_tx_reqs = <<>>
    /\ b2p # <<>>
    /\ Head(b2p).type = type
    /\ b2p' = Tail(b2p)
    /\ disconnected' = disconnected

\* One loop iteration whose select! took the next BridgeMsg of p4b.
BridgeRecv(type) ==
    /\ b2p # <<>>
    /\ Head(b2p).type = type
    /\ b2p' = Tail(b2p)
    /\ disconnected' = disconnected

\* One loop iteration whose select! returned Err(RecvError) for channel ch,
\* its last sender dropped and nothing left in it (the BftBridge, the only
\* holder of b2p, is dropped with no thread inside a call): neither
\* `if let Ok` matches and the loop goes round again.
InputChannels == {"p4r", "p4b"}
Recv_Err(ch) ==
    /\ ch \notin disconnected
    /\ ch = "p4b" => (b2p = <<>> /\ \A t \in Threads : call[t] = None)
    /\ disconnected' = disconnected \cup {ch}
    /\ UNCHANGED <<caches, queues, b2p, resp_chans, p2r, bft_actuator, threads, bus,
                   history>>

On_GetBlockReq ==
    /\ BridgeRecv("GetBlockReq")
    /\ get_block_reqs' = push_back(get_block_reqs, Head(b2p).height)
    /\ reqLog' = Append(reqLog, [height |-> Head(b2p).height,
                                 status_seen |-> first_status[Head(b2p).height] # None])
    /\ UNCHANGED <<caches, check_tx_reqs, resp_chans, p2r, bft_actuator, threads, bus,
                   respLog, first_status, last_status, batchLog, last_nodes, last_commit,
                   nDropped>>

On_CheckBlockReq ==
    /\ BridgeRecv("CheckBlockReq")
    /\ p2b_b' = send(p2b_b, [type |-> "CheckBlockResp",
                             is_pass |-> check_block(Head(b2p).block, Head(b2p).height)])
    /\ UNCHANGED <<caches, queues, p2b_f, p2b_s, p2b_t, p2r, bft_actuator, threads, bus,
                   history>>

\* A variant that publishes the verification request and queues nothing.
On_CheckTxReq_unqueued ==
    /\ BridgeRecv("CheckTxReq")
    /\ LET m == Head(b2p)
       IN p2r' = send(p2r, [key |-> "Consensus>>VerifyBlockReq",
                            body |-> get_block_req_msg(m.block, m.height, m.round)])
    /\ UNCHANGED <<caches, queues, resp_chans, bft_actuator, threads, bus, history>>

On_CheckTxReq ==
    /\ BridgeRecv("CheckTxReq")
    /\ LET m == Head(b2p)
       IN /\ p2r' = send(p2r, [key |-> "Consensus>>VerifyBlockReq",
                               body |-> get_block_req_msg(m.block, m.height, m.round)])
          /\ check_tx_reqs' = push_back(check_tx_reqs, <<m.height, m.round>>)
    /\ UNCHANGED <<caches, get_block_reqs, resp_chans, bft_actuator, threads, bus, history>>

\* The signing library's verdict is outside this repository: either outcome.
On_SignReq ==
    /\ BridgeRecv("SignReq")
    /\ \E ok \in BOOLEAN :
         p2b_s' = send(p2b_s, [type |-> "SignResp", sign |-> sign(Head(b2p).hash, ok)])
    /\ UNCHANGED <<caches, queues, p2b_b, p2b_f, p2b_t, p2r, bft_actuator, threads, bus,
                   history>>

\* A variant that publishes every event that is no Proposal as a vote.
transmit_any(msg) ==
    IF msg.type = "Proposal"
    THEN send(p2r, [key |-> "Consensus>>CompactSignedProposal", body |-> msg.body])
    ELSE send(p2r, [key |-> "Consensus>>RawBytes", body |-> msg.body])

\* Processor::transmit: Proposal and Vote go out on the bus, anything else is dropped.
transmit(msg) ==
    CASE msg.type = "Proposal" ->
           send(p2r, [key |-> "Consensus>>CompactSignedProposal", body |-> msg.body])
      [] msg.type = "Vote" ->
           send(p2r, [key |-> "Consensus>>RawBytes", body |-> msg.body])
      [] OTHER -> p2r

On_Transmit ==
    /\ BridgeRecv("Transmit")
    /\ p2r' = transmit(Head(b2p).msg)
    /\ UNCHANGED <<caches, queues, resp_chans, bft_actuator, threads, bus, history>>

\* A variant that caches the proof of the commit.
commit_store(c) == [proof EXCEPT ![c.height] = Some(c.proof)]

\* Processor::commit: the body is empty, the proof cache is left as it is.
commit(c) == proof

On_Commit ==
    /\ BridgeRecv("Commit")
    /\ proof' = commit(Head(b2p).commit)
    /\ last_commit' = [last_commit EXCEPT ![Head(b2p).commit.height] =
                          Some(Head(b2p).commit.proof)]
    /\ UNCHANGED <<pre_hash, version, get_block_resps, queues, resp_chans, p2r,
                   bft_actuator, threads, bus, reqLog, respLog, first_status, last_status,
                   batchLog, last_nodes, nDropped>>

\* The default branch: a BridgeMsg of a response variant arriving on p4b is
\* dropped.
ResponseTypes == {"GetBlockResp", "CheckBlockResp", "CheckTxResp", "SignResp"}
On_Response ==
    /\ \E type \in ResponseTypes : BridgeRecv(type)
    /\ nDropped' = nDropped + 1
    /\ UNCHANGED <<caches, queues, resp_chans, p2r, bft_actuator, threads, bus, reqLog,
                   respLog, first_status, last_status, batchLog, last_nodes, last_commit>>

\* ------------------------------------------------------------ BftBridge (actuator threads)
\* A thread enters a capability: one request on b2p.
Enter(t, msg) ==
    /\ "p4b" \notin disconnected
    /\ disconnected' = disconnected
    /\ call[t] = None
    /\ nCalls < MaxCalls
    /\ nCalls' = nCalls + 1
    /\ b2p' = send(b2p, msg)
    /\ get_height' = [get_height EXCEPT ![t] =
                         IF msg.type = "GetBlockReq" THEN Some(msg.height) ELSE None]
    /\ overlap' = [overlap EXCEPT ![t] =
                      IF /\ msg.type \in {"SignReq", "CheckBlockReq"}
                         /\ \E u \in Threads \ {t} : call[u] = Some("check_transaction")
                      THEN "entered" ELSE "no"]

Blocking(t, kind) ==
    /\ call' = [call EXCEPT ![t] = Some(kind)]
    /\ UNCHANGED <<caches, queues, resp_chans, p2r, bft_actuator, bus, history>>

check_block_call(t, block, height) ==
    /\ Enter(t, [type |-> "CheckBlockReq", block |-> block, height |-> height])
    /\ Blocking(t, "check_block")

check_transaction_call(t, block, height, round) ==
    /\ Enter(t, [type |-> "CheckTxReq", block |-> block, height |-> height, round |-> round])
    /\ Blocking(t, "check_transaction")

get_block_call(t, height) ==
    /\ Enter(t, [type |-> "GetBlockReq", height |-> height])
    /\ Blocking(t, "get_block")

sign_call(t, hash) ==
    /\ Enter(t, [type |-> "SignReq", hash |-> hash])
    /\ Blocking(t, "sign")

\* transmit and commit send and return at once.
transmit_call(t, msg) ==
    /\ Enter(t, [type |-> "Transmit", msg |-> msg])
    /\ UNCHANGED <<caches, queues, resp_chans, p2r, bft_actuator, call, bus, history>>

commit_call(t, c) ==
    /\ Enter(t, [type |-> "Commit", commit |-> c])
    /\ UNCHANGED <<caches, queues, resp_chans, p2r, bft_actuator, call, bus, history>>

\* The response channel each blocking capability receives on.
chan(kind) ==
    CASE kind = "check_block" -> p2b_b
      [] kind = "check_transaction" -> p2b_t
      [] kind = "get_block" -> p2b_f
      [] kind = "sign" -> p2b_s

\* What a capability returns for the message it received: the payload of
\* the matching response variant, the negative result for any other.
unwrap_resp(kind, msg) ==
    CASE kind = "check_block" ->
           IF msg.type = "CheckBlockResp" THEN msg.is_pass ELSE FALSE
      [] kind = "check_transaction" ->
           IF msg.type = "CheckTxResp" THEN msg.is_pass ELSE FALSE
      [] kind = "get_block" ->
           IF msg.type = "GetBlockResp" THEN msg.block ELSE None
      [] kind = "sign" ->
           IF msg.type = "SignResp" THEN msg.sign ELSE None

BlockingKinds == {"check_block", "check_transaction", "get_block", "sign"}

\* The value a thread blocked in a capability returns once its channel
\* holds a message.
returned(kind) == unwrap_resp(kind, Head(chan(kind)))

\* The blocking recv() of a capability takes the head of its channel and
\* the capability returns returned(kind) to the actuator.
bridge_recv(t) ==
    \E kind \in BlockingKinds :
        /\ call[t] = Some(kind)
        /\ chan(kind) # <<>>
        /\ call' = [call EXCEPT ![t] = None]
        /\ get_height' = [get_height EXCEPT ![t] = None]
        /\ overlap' = [overlap EXCEPT ![t] = IF @ = "entered" THEN "returned" ELSE @]
        /\ p2b_b' = IF kind = "check_block" THEN Tail(p2b_b) ELSE p2b_b
        /\ p2b_t' = IF kind = "check_transaction" THEN Tail(p2b_t) ELSE p2b_t
        /\ p2b_f' = IF kind = "get_block" THEN Tail(p2b_f) ELSE p2b_f
        /\ p2b_s' = IF kind = "sign" THEN Tail(p2b_s) ELSE p2b_s
        /\ UNCHANGED <<caches, queues, b2p, p2r, disconnected, bft_actuator, nCalls, bus,
                       history>>

\* Another holder of a sender of the request channel puts a BridgeMsg of a
\* response variant on it: the channel's type admits every variant.
StrayMsgs == {[type |-> "CheckBlockResp", is_pass |-> TRUE],
              [type |-> "GetBlockResp", block |-> None]}
Stray_send(msg) ==
    /\ "p4b" \notin disconnected
    /\ nCalls < MaxCalls
    /\ nCalls' = nCalls + 1
    /\ b2p' = send(b2p, msg)
    /\ UNCHANGED <<caches, queues, resp_chans, p2r, disconnected, bft_actuator, call,
                   get_height, overlap, bus, history>>

\* ------------------------------------------------------------ specification
ProcessorBus ==
    \/ \E body \in Payloads : Net_CompactSignedProposal(body)
    \/ \E body \in Payloads : Net_RawBytes(body)
    \/ \E st \in StatusEvents, nodes \in NodeLists, interval \in Intervals :
            Chain_RichStatus(st.height, st.hash, st.version, nodes, interval)
    \/ \E b \in BatchEvents, now \in Times : Auth_BlockTxs(b.height, b.body, now)
    \/ \E topic \in IgnoredTopics : Bus_Ignored(topic)

ProcessorBridge ==
    \/ On_GetBlockReq
    \/ On_CheckBlockReq
    \/ On_CheckTxReq
    \/ On_SignReq
    \/ On_Transmit
    \/ On_Commit

Returns == \E t \in Threads : bridge_recv(t)

Calls ==
    \E t \in Threads :
        \/ \E block \in Payloads, height \in {1} : check_block_call(t, block, height)
        \/ \E block \in RawBlocks, height \in Heights, round \in Rounds :
               check_transaction_call(t, block, height, round)
        \/ \E height \in Heights : get_block_call(t, height)
        \/ \E hash \in SignHashes : sign_call(t, hash)
        \/ \E msg \in BftMsgs : transmit_call(t, msg)
        \/ \E c \in Commits : commit_call(t, c)

Next == ProcessorBus \/ ProcessorBridge \/ Calls \/ Returns

Spec == Init /\ [][Next]_vars

\* The Processor loop keeps iterating while a BridgeMsg is waiting, and a
\* thread blocked in recv() wakes when its channel holds a message.  The bus
\* and the actuator's calls are the environment's: no fairness.
Fairness == WF_vars(ProcessorBridge) /\ WF_vars(Returns)
FairSpec == Spec /\ Fairness

\* The same program with one bus message fewer in a run.
ShortBus == nBus + 1 < MaxBus
ShortBusNext ==
    \/ \E body \in Payloads : ShortBus /\ Net_CompactSignedProposal(body)
    \/ \E body \in Payloads : ShortBus /\ Net_RawBytes(body)
    \/ \E st \in StatusEvents, nodes \in NodeLists, interval \in Intervals :
            ShortBus /\ Chain_RichStatus(st.height, st.hash, st.version, nodes, interval)
    \/ \E b \in BatchEvents, now \in Times : ShortBus /\ Auth_BlockTxs(b.height, b.body, now)
    \/ \E topic \in IgnoredTopics : ShortBus /\ Bus_Ignored(topic)
    \/ ProcessorBridge
    \/ Calls
    \/ Returns

\* The runs whose every cycle is searched.
LiveSpec == Init /\ [][ShortBusNext]_vars /\ Fairness

\* The status branch alone, over every list of per-node entries.
StatusNext ==
    \E st \in StatusEvents, nodes \in NodeReports, interval \in Intervals :
        Chain_RichStatus(st.height, st.hash, st.version, nodes, interval)
StatusSpec == Init /\ [][StatusNext]_vars

\* The program with a second sender on the request channel.
StraySend == \E msg \in StrayMsgs : Stray_send(msg)
StrayNext == ShortBusNext \/ StraySend \/ On_Response
StraySpec == Init /\ [][StrayNext]_vars

\* The program in an environment that may drop its ends of the Processor's
\* input channels.
ProcessorRecvErr == \E ch \in InputChannels : Recv_Err(ch)
DropNext == Next \/ ProcessorRecvErr
DropSpec == Init /\ [][DropNext]_vars

\* ------------------------------------------------------------ properties
\* Some of version, pre_hash and proof is not cached for height h.
MissingState(h) == version[h] = None \/ pre_hash[h] = None \/ proof[h] = None

\* This step sends a GetBlockResp on the forward channel.
SentGetBlockResp == Len(p2b_f') = Len(p2b_f) + 1 /\ Len(respLog') = Len(respLog) + 1
NewResp == p2b_f'[Len(p2b_f')]
\* The height of the request the new response answers.
AnsweredHeight == respLog'[Len(respLog')].height

\* This step handles a transaction batch.
BatchArrived == batchLog' # batchLog

C2_BlockOnlyWhenReady ==
    [][SentGetBlockResp =>
         ((NewResp.block # None) <=>
            (/\ version[AnsweredHeight] # None
             /\ pre_hash[AnsweredHeight] # None
             /\ proof[AnsweredHeight] # None
             /\ get_block_resps'[AnsweredHeight] # None))]_vars

\* A response carrying none was sent for a height whose version and
\* pre_hash are cached while its proof is not.
C2_Witness ==
    \E k \in 1..Len(respLog) :
        /\ respLog[k].block = None
        /\ version[respLog[k].height] # None
        /\ pre_hash[respLog[k].height] # None
        /\ proof[respLog[k].height] = None

\* C3 as claimed: when a batch arrives and assembly for the front request
\* fails for missing height state, the request stays at the front and no
\* response is sent.
C3_FailedRequestStaysQueued ==
    [][(/\ BatchArrived
        /\ get_block_reqs # <<>>
        /\ get_block_resps'[Head(get_block_reqs)] # None
        /\ MissingState(Head(get_block_reqs)))
       => (get_block_reqs' = get_block_reqs /\ p2b_f' = p2b_f)]_vars

\* C3 amended: when a batch arrives, a batch for the front request's height
\* is cached and version, pre_hash or proof of that height is missing, the
\* Processor sends GetBlockResp(None) and pops the request.
C3_FailedRequestAnsweredNone ==
    [][(/\ BatchArrived
        /\ get_block_reqs # <<>>
        /\ get_block_resps'[Head(get_block_reqs)] # None
        /\ MissingState(Head(get_block_reqs)))
       => (/\ p2b_f' = Append(p2b_f, [type |-> "GetBlockResp", block |-> None])
           /\ get_block_reqs' = Tail(get_block_reqs))]_vars

\* The only request was answered with none, its height state still missing,
\* and it is no longer queued.
C3_Witness ==
    /\ Len(reqLog) = 1
    /\ Len(respLog) = 1
    /\ respLog[1].block = None
    /\ MissingState(respLog[1].height)
    /\ get_block_reqs = <<>>

\* C4 as claimed, for check_transaction: a thread inside check_transaction
\* eventually returns.
C4_CheckTransactionReturns ==
    \A t \in Threads : (call[t] = Some("check_transaction")) ~> (call[t] = None)

\* C5: the k-th GetBlockResp sent answers the k-th GetBlockReq handled, and
\* a request leaves the get-block queue only from the front, with a batch
\* for its height cached, as its response is sent.
C5_FifoResponses ==
    [][/\ SentGetBlockResp => AnsweredHeight = reqLog[Len(respLog')].height
       /\ (get_block_reqs' # get_block_reqs /\ Len(get_block_reqs') <= Len(get_block_reqs))
          => (/\ get_block_reqs' = Tail(get_block_reqs)
              /\ get_block_resps'[Head(get_block_reqs)] # None
              /\ SentGetBlockResp
              /\ AnsweredHeight = Head(get_block_reqs))]_vars

\* Two requests for different heights have both been answered.
C5_Witness ==
    /\ Len(respLog) = 2
    /\ respLog[1].height # respLog[2].height

\* C6: the cached pre_hash and version of a height are those of the first
\* status event processed for it.
C6_FirstStatusWins ==
    \A h \in Heights :
        IF first_status[h] = None
        THEN pre_hash[h] = None /\ version[h] = None
        ELSE /\ pre_hash[h] = Some(unwrap(first_status[h]).hash)
             /\ version[h] = Some(unwrap(first_status[h]).version)

\* A later status event for the same height carried another hash and version.
C6_Witness ==
    \E h \in Heights :
        /\ first_status[h] # None
        /\ unwrap(last_status[h]).hash # unwrap(first_status[h]).hash
        /\ unwrap(last_status[h]).version # unwrap(first_status[h]).version

\* C7 as claimed: after two batches for a height, the cached batch is the
\* second one.
C7_LatestBatchWins ==
    \A h \in Heights :
        Len(batchLog[h]) >= 2
        => get_block_resps[h] = Some([height |-> h, body |-> batchLog[h][Len(batchLog[h])]])

\* C7 amended: the cached batch of a height is the first one processed for
\* it; later batches for the height are discarded.
C7_FirstBatchWins ==
    \A h \in Heights :
        IF batchLog[h] = <<>>
        THEN get_block_resps[h] = None
        ELSE get_block_resps[h] = Some([height |-> h, body |-> batchLog[h][1]])

\* Two batches with different bodies were processed for one height.
C7_Witness ==
    \E h \in Heights : Len(batchLog[h]) >= 2 /\ batchLog[h][2] # batchLog[h][1]

\* C8 as claimed: after a Commit for a height is handled, the cached proof
\* of that height is the proof of the latest such commit.
C8_ProofCachedAfterCommit ==
    \A h \in Heights : last_commit[h] # None => proof[h] = last_commit[h]

\* C9 as claimed: a request enqueued after the status event of its height
\* gets no response before a batch for the height arrives, and the first
\* batch for the height, arriving while the request is at the front, is
\* answered with an assembled block of that height proposed by this node.
C9_StatusRequestBatchYieldsBlock ==
    [][/\ (SentGetBlockResp /\ reqLog[Len(respLog')].status_seen)
          => batchLog'[AnsweredHeight] # <<>>
       /\ \A h \in Heights :
            (/\ batchLog[h] = <<>>
             /\ batchLog'[h] # <<>>
             /\ get_block_reqs # <<>>
             /\ Head(get_block_reqs) = h
             /\ reqLog[Len(respLog) + 1].status_seen)
            => (/\ SentGetBlockResp
                /\ NewResp.block # None
                /\ unwrap(NewResp.block).height = h
                /\ unwrap(NewResp.block).proposer = address)]_vars

\* C10 as claimed: at most one request of each blocking kind is sent and
\* not yet answered.
C10_OneOutstandingPerKind ==
    \A kind \in BlockingKinds :
        Cardinality({t \in Threads : call[t] = Some(kind)}) <= 1

\* C11: a thread inside sign or check_block while another thread is inside
\* an unanswered check_transaction eventually returns: the pending
\* check_transaction does not hold the other capabilities up.
C11_PendingCheckTxDoesNotBlock ==
    \A t \in Threads :
        (/\ call[t] \in {Some("sign"), Some("check_block")}
         /\ \E u \in Threads \ {t} : call[u] = Some("check_transaction"))
        ~> (call[t] = None)

\* A sign or check_block call made while another thread was inside
\* check_transaction has returned, the check_transaction request handled and
\* still unanswered.
C11_Witness ==
    \E t \in Threads :
        /\ overlap[t] = "returned"
        /\ call[t] = None
        /\ \E u \in Threads \ {t} : call[u] = Some("check_transaction")
        /\ check_tx_reqs # <<>>
        /\ p2b_t = <<>>

\* C12 as claimed: once a receive on an input channel of the Processor has
\* failed, the loop handles no further message, from the bus or from the
\* bridge.
C12_FailedRecvStopsLoop ==
    [][disconnected # {} => (nBus' = nBus /\ Len(b2p') >= Len(b2p))]_vars

\* The proposal weights of a set of authority-list entries, summed.
RECURSIVE SumWeights(_)
SumWeights(nodes) ==
    IF nodes = {} THEN 0
    ELSE LET n == CHOOSE x \in nodes : TRUE
         IN n.proposal_weight + SumWeights(nodes \ {n})

\* C13: the authority list of the status event sent to the actuator holds
\* each distinct address of the event's per-node entries exactly once, with
\* proposal_weight its number of occurrences and vote_weight 1, so the
\* proposal weights sum to the number of entries.
C13_AuthorityWeights ==
    (bft_actuator # None /\ unwrap(bft_actuator).type = "Status")
    => LET al == unwrap(bft_actuator).authority_list
           L == last_nodes
       IN /\ \A i \in 1..Len(L) : Cardinality({n \in al : n.address = L[i]}) = 1
          /\ \A n \in al :
                /\ \E i \in 1..Len(L) : L[i] = n.address
                /\ n.proposal_weight = Cardinality({i \in 1..Len(L) : L[i] = n.address})
                /\ n.vote_weight = 1
          /\ SumWeights(al) = Len(L)

\* The actuator holds a status event whose entries named one address more
\* than once and another address besides.
C13_Witness ==
    /\ bft_actuator # None
    /\ unwrap(bft_actuator).type = "Status"
    /\ Len(last_nodes) = MaxNodes
    /\ \E n \in unwrap(bft_actuator).authority_list : n.proposal_weight >= 2
    /\ Cardinality(unwrap(bft_actuator).authority_list) >= 2

\* This step handles a transaction batch for height B.
BatchArrivedFor(B) == Len(batchLog'[B]) = Len(batchLog[B]) + 1

\* C14 as claimed: a batch for height B has the front request answered
\* only if the front height is B; a batch for another height leaves the
\* get-block queue and the forward channel as they are.
C14_OnlyMatchingBatchAnswers ==
    [][\A B \in Heights :
         (BatchArrivedFor(B) /\ (get_block_reqs = <<>> \/ Head(get_block_reqs) # B))
         => (get_block_reqs' = get_block_reqs /\ p2b_f' = p2b_f)]_vars

\* C14 amended: a batch for height B has the front request answered, by
\* one GetBlockResp for the front height, and popped exactly when the front
\* height is B or a batch for the front height was cached before; otherwise
\* the queue and the forward channel stay as they are.  No other step
\* sends a GetBlockResp.
C14_FrontAnsweredWhenItsBatchIsCached ==
    [][/\ \A B \in Heights :
            BatchArrivedFor(B)
            => IF /\ get_block_reqs # <<>>
                  /\ (Head(get_block_reqs) = B \/ get_block_resps[Head(get_block_reqs)] # None)
               THEN /\ SentGetBlockResp
                    /\ p2b_f' = Append(p2b_f, NewResp)
                    /\ NewResp.type = "GetBlockResp"
                    /\ AnsweredHeight = Head(get_block_reqs)
                    /\ get_block_reqs' = Tail(get_block_reqs)
               ELSE get_block_reqs' = get_block_reqs /\ p2b_f' = p2b_f
       /\ SentGetBlockResp => BatchArrived]_vars

\* A request was answered on the arrival of a batch for another height.
C14_Witness ==
    \E k \in 1..Len(respLog) : respLog[k].batch # respLog[k].height

\* This step is the loop iteration that handles a BridgeMsg of the type.
Handled(type) == b2p # <<>> /\ Head(b2p).type = type /\ b2p' = Tail(b2p)

\* C15: the iteration that handles a CheckBlockReq sends exactly one
\* CheckBlockResp(true) on the block-check channel and nothing on the other
\* response channels; the iteration that handles a SignReq(hash) sends
\* exactly one SignResp, the signature of hash by this node or none, on the
\* sign channel and nothing on the others; every check_block call returns
\* true.
C15_AnsweredInSameIteration ==
    [][/\ Handled("CheckBlockReq")
          => /\ p2b_b' = Append(p2b_b, [type |-> "CheckBlockResp", is_pass |-> TRUE])
             /\ UNCHANGED <<p2b_f, p2b_s, p2b_t>>
       /\ Handled("SignReq")
          => /\ \E sg \in {None, Some([signer |-> address, hash |-> Head(b2p).hash])} :
                   p2b_s' = Append(p2b_s, [type |-> "SignResp", sign |-> sg])
             /\ UNCHANGED <<p2b_b, p2b_f, p2b_t>>
       /\ \A t \in Threads :
            (call[t] = Some("check_block") /\ call'[t] = None)
            => (p2b_b # <<>> /\ returned("check_block") = TRUE)]_vars

\* One thread is inside check_block and one inside sign, both requests
\* handled and both responses waiting on their channels.
C15_Witness ==
    /\ \E t \in Threads : call[t] = Some("check_block")
    /\ \E t \in Threads : call[t] = Some("sign")
    /\ b2p = <<>>
    /\ p2b_b = <<[type |-> "CheckBlockResp", is_pass |-> TRUE]>>
    /\ Len(p2b_s) = 1
    /\ p2b_s[1].type = "SignResp"

\* The (height, round) pairs of the verification requests in a sequence of
\* published bus messages, in order.
RECURSIVE VerifyPairs(_)
VerifyPairs(msgs) ==
    IF msgs = <<>> THEN <<>>
    ELSE IF Head(msgs).key = "Consensus>>VerifyBlockReq"
         THEN <<<<Head(msgs).body.height, Head(msgs).body.round>>>> \o VerifyPairs(Tail(msgs))
         ELSE VerifyPairs(Tail(msgs))

\* C16: the iteration that handles CheckTxReq(block, height, round)
\* publishes exactly one message on the bus, a verification request for the
\* block at that height and round, and appends (height, round) to the
\* check-transaction queue; no other step changes that queue, which so holds
\* the pairs of all CheckTxReq handled, in arrival order.
C16_CheckTxPublishedAndQueued ==
    [][/\ Handled("CheckTxReq")
          => LET m == Head(b2p)
             IN /\ p2r' = Append(p2r, [key |-> "Consensus>>VerifyBlockReq",
                                        body |-> [height |-> m.height, round |-> m.round,
                                                  block |-> m.block.compact_block,
                                                  origin |-> m.block.origin]])
                /\ check_tx_reqs' = Append(check_tx_reqs, <<m.height, m.round>>)
       /\ ~Handled("CheckTxReq") => check_tx_reqs' = check_tx_reqs
       /\ check_tx_reqs' = VerifyPairs(p2r')]_vars

\* Two CheckTxReq for different heights were handled, the later one for the
\* lower height.
C16_Witness ==
    /\ Len(check_tx_reqs) = 2
    /\ check_tx_reqs[1][1] > check_tx_reqs[2][1]
    /\ check_tx_reqs = VerifyPairs(p2r)

\* C17: the iteration that handles Transmit(event) publishes exactly one
\* bus message, under the outbound proposal topic for a Proposal and under
\* the outbound vote topic for a Vote, carrying the event's payload as it
\* is; for any other event it publishes nothing.  Caches, queues and
\* response channels stay as they are.
C17_TransmitPublishes ==
    [][Handled("Transmit")
       => LET ev == Head(b2p).msg
          IN /\ ev.type = "Proposal"
                  => p2r' = Append(p2r, [key |-> "Consensus>>CompactSignedProposal",
                                         body |-> ev.body])
             /\ ev.type = "Vote"
                  => p2r' = Append(p2r, [key |-> "Consensus>>RawBytes", body |-> ev.body])
             /\ ev.type \notin {"Proposal", "Vote"} => p2r' = p2r
             /\ UNCHANGED <<caches, queues, resp_chans>>]_vars

\* A Proposal and a Vote were transmitted, each published under its topic
\* with its own payload.
C17_Witness ==
    /\ Len(p2r) = 2
    /\ \E i \in 1..2 : /\ p2r[i].key = "Consensus>>CompactSignedProposal"
                        /\ p2r[i].body = "proposal bytes"
    /\ \E i \in 1..2 : /\ p2r[i].key = "Consensus>>RawBytes"
                        /\ p2r[i].body = "vote bytes"
    /\ b2p = <<>>

\* C18: the iteration that handles a bus message under an unrecognized,
\* verification-result or snapshot-control topic, a Commit request, or a
\* BridgeMsg of a response variant on the request channel leaves the caches
\* (proof, pre_hash, version, batches) and both queues as they are and sends
\* nothing: not to the bridge, the bus or the actuator.
C18_IgnoredMessagesChangeNothing ==
    [][(\/ nBus' = nBus + 1 /\ bus_ignored'
        \/ Handled("Commit")
        \/ \E type \in ResponseTypes : Handled(type))
       => /\ UNCHANGED <<proof, pre_hash, version, get_block_resps>>
          /\ UNCHANGED <<get_block_reqs, check_tx_reqs>>
          /\ UNCHANGED <<p2b_b, p2b_f, p2b_s, p2b_t, p2r, bft_actuator>>
          /\ Len(b2p') <= Len(b2p)]_vars

\* A Commit and a stray response were handled, then a bus message whose
\* branch is empty.
C18_Witness ==
    /\ nDropped >= 1
    /\ \E h \in Heights : last_commit[h] # None
    /\ bus_ignored
    /\ b2p = <<>>

\* C19: the GetBlockResp sent and the requests still in the get-block queue
\* together number the GetBlockReq handled, and the queue is the not yet
\* answered requests in the order they were handled.
C19_ResponsesPlusQueueIsRequests ==
    /\ Len(respLog) + Len(get_block_reqs) = Len(reqLog)
    /\ Len(p2b_f) <= Len(respLog)
    /\ \A i \in 1..Len(get_block_reqs) :
           get_block_reqs[i] = reqLog[Len(respLog) + i].height

\* Two requests were handled, one is answered and one is still queued.
C19_Witness ==
    /\ Len(reqLog) = 2
    /\ Len(respLog) = 1
    /\ Len(get_block_reqs) = 1

\* The request height of the GetBlockResp at the head of the forward
\* channel: the channel holds the latest responses sent, in order.
HeadRespHeight == respLog[Len(respLog) - Len(p2b_f) + 1].height

\* C20 as claimed: when two threads are inside get_block for different
\* heights, the one that returns takes the GetBlockResp produced for its own
\* height.
C20_OwnResponse ==
    [][\A t \in Threads, u \in Threads :
         (/\ call[t] = Some("get_block")
          /\ call[u] = Some("get_block")
          /\ get_height[t] # get_height[u]
          /\ call'[t] = None)
         => HeadRespHeight = unwrap(get_height[t])]_vars

====
